---- MODULE Spec2Model ----
(***************************************************************************)
(* Model of the recommendation engine of Backend/models.py                 *)
(* (RecommendationService, Profile text helpers, UserRecommendation cache) *)
(* and of the views of Backend/views.py that change the data it reads.     *)
(*                                                                         *)
(* Text is a sequence of one-character strings.  A float in [0, 1] is an   *)
(* integer number of 1/Unit parts, which is exact for every value the      *)
(* model computes (denominators 5, 10 and set sizes up to 10).             *)
(***************************************************************************)
EXTENDS Integers, Sequences, FiniteSets, TLC

\* ------------------------------------------------------------------ bounds
NumUsers == 3
NumPosts == 1
MaxLimit == 2
MaxTime == 8
MaxSteps == 3
NumProcs == 2
MaxCalls == 2
MaxComments == 2
MaxMutual == 7
MaxOverlap == 12
MaxUnion == 4

Users == 1..NumUsers
Posts == 1..NumPosts
Limits == 0..MaxLimit
Procs == 1..NumProcs

\* ------------------------------------------------------- program constants
Unit == 25200
MutualCap == 5
ActivityCap == 10
StaleDays == 7
RefreshLimit == 20
MinInterestLen == 2
MaxInterestLen == 50
MaxInterests == 10

Tenths(n) == (n * Unit) \div 10
mutual_weight == Tenths(4)
interest_weight == Tenths(4)
activity_weight == Tenths(2)
DefaultMinScore == Tenths(1)

\* ------------------------------------------------------------ small helpers
Min(a, b) == IF a <= b THEN a ELSE b
ToSet(s) == {s[i] : i \in DOMAIN s}
Take(s, n) == SubSeq(s, 1, Min(n, Len(s)))
Mul(x, y) == (x * y) \div Unit

\* ---------------------------------------------------------------------- text
Uppers == <<"A","B","C","D","E","F","G","H","I","J","K","L","M",
            "N","O","P","Q","R","S","T","U","V","W","X","Y","Z">>
Lowers == <<"a","b","c","d","e","f","g","h","i","j","k","l","m",
            "n","o","p","q","r","s","t","u","v","w","x","y","z">>
Digits == {"0","1","2","3","4","5","6","7","8","9"}
Whitespace == {" ", "\t", "\n"}

UpperChars == ToSet(Uppers)
WordChars == ToSet(Uppers) \cup ToSet(Lowers) \cup Digits \cup {"_"}
LowerOf == [c \in UpperChars |-> Lowers[CHOOSE i \in DOMAIN Uppers : Uppers[i] = c]]

\* str.lower() on one character
Lower(c) == IF c \in UpperChars THEN LowerOf[c] ELSE c

LowerStr(s) == [i \in DOMAIN s |-> Lower(s[i])]

\* the regex class \w
IsWordChar(c) == c \in WordChars

\* str.split(',')
SplitComma(s) ==
    LET RECURSIVE go(_, _, _)
        go(i, cur, acc) ==
            IF i > Len(s) THEN Append(acc, cur)
            ELSE IF s[i] = "," THEN go(i + 1, <<>>, Append(acc, cur))
            ELSE go(i + 1, Append(cur, s[i]), acc)
    IN go(1, <<>>, <<>>)

\* str.strip()
Strip(s) ==
    LET keep == {i \in DOMAIN s : s[i] \notin Whitespace}
    IN IF keep = {} THEN <<>>
       ELSE LET lo == CHOOSE i \in keep : \A j \in keep : i <= j
                hi == CHOOSE i \in keep : \A j \in keep : j <= i
            IN SubSeq(s, lo, hi)

\* ', '.join(parts)
JoinCommaSpace(parts) ==
    LET RECURSIVE go(_, _)
        go(i, acc) ==
            IF i > Len(parts) THEN acc
            ELSE go(i + 1, IF i = 1 THEN parts[i] ELSE acc \o <<",", " ">> \o parts[i])
    IN go(1, <<>>)

\* re.findall(r'\b\w+\b', s): the maximal runs of word characters, in order
FindWords(s) ==
    LET RECURSIVE go(_, _, _)
        go(i, cur, acc) ==
            IF i > Len(s) THEN (IF cur = <<>> THEN acc ELSE Append(acc, cur))
            ELSE IF IsWordChar(s[i]) THEN go(i + 1, Append(cur, s[i]), acc)
            ELSE go(i + 1, <<>>, IF cur = <<>> THEN acc ELSE Append(acc, cur))
    IN go(1, <<>>, <<>>)

NonEmpty(w) == w # <<>>

common_words == {
    <<"i">>, <<"a","m">>, <<"a">>, <<"a","n">>, <<"t","h","e">>, <<"i","s">>,
    <<"a","r","e">>, <<"w","a","s">>, <<"w","e","r","e">>, <<"b","e">>,
    <<"b","e","e","n">>, <<"b","e","i","n","g">>, <<"h","a","v","e">>, <<"h","a","s">>,
    <<"h","a","d">>, <<"d","o">>, <<"d","o","e","s">>, <<"d","i","d">>,
    <<"w","i","l","l">>, <<"w","o","u","l","d">>, <<"c","o","u","l","d">>,
    <<"s","h","o","u","l","d">>, <<"a","n","d">>, <<"o","r">>, <<"b","u","t">>,
    <<"i","n">>, <<"o","n">>, <<"a","t">>, <<"t","o">>, <<"f","o","r">>, <<"o","f">>,
    <<"w","i","t","h">>, <<"b","y">>, <<"l","o","v","e">>, <<"l","i","k","e">>,
    <<"e","n","j","o","y">>, <<"w","h","o">>, <<"w","h","a","t">>, <<"w","h","e","r","e">>,
    <<"w","h","e","n">>, <<"w","h","y">>, <<"h","o","w">> }

\* Profile.get_interests_list: the list of cleaned interests of a raw string
get_interests_list(interests) ==
    IF interests = <<>> THEN <<>>
    ELSE LET pieces == SplitComma(interests)
             cleaned == [i \in DOMAIN pieces |-> LowerStr(Strip(pieces[i]))]
         IN SelectSeq(cleaned, NonEmpty)

\* mutant: stop-words are kept
Meaningful_any_long_word(word) == Len(word) > 2

Meaningful(word) == Len(word) > 2 /\ word \notin common_words

\* Profile.get_bio_keywords: the list of keywords of a raw bio
get_bio_keywords(bio) ==
    IF bio = <<>> THEN <<>>
    ELSE SelectSeq(FindWords(LowerStr(bio)), Meaningful)

\* ProfileSerializer.validate_interests: <<accepted, cleaned value>>
validate_interests(value) ==
    IF value = <<>> THEN <<TRUE, value>>
    ELSE LET pieces == SplitComma(value)
             stripped == [i \in DOMAIN pieces |-> Strip(pieces[i])]
             interests_list == SelectSeq(stripped, NonEmpty)
         IN IF Len(interests_list) > MaxInterests THEN <<FALSE, value>>
            ELSE IF \E i \in DOMAIN interests_list :
                        \/ Len(interests_list[i]) > MaxInterestLen
                        \/ Len(interests_list[i]) < MinInterestLen
                 THEN <<FALSE, value>>
            ELSE <<TRUE, JoinCommaSpace(interests_list)>>

\* ------------------------------------------------------------- input texts
TxtArtJazz == <<"A","r","t",","," ","J","a","z","z">>
TxtArt == <<"a","r","t">>
TxtJazzArt == <<" ","j","a","z","z"," ",",",",","A","R","T">>
TxtBio == <<"I"," ","l","o","v","e"," ","A","r","t">>
\* "I am a photographer who loves travel and food", the bio of the docstring
TxtPhotographer ==
    <<"I"," ","a","m"," ","a"," ","p","h","o","t","o","g","r","a","p","h","e",
      "r"," ","w","h","o"," ","l","o","v","e","s"," ","t","r","a","v","e","l",
      " ","a","n","d"," ","f","o","o","d">>

InterestInputs == {<<>>, TxtArt, TxtJazzArt}
BioInputs == {<<>>, TxtBio, TxtPhotographer}

\* the interests a profile can hold: the fixtures and what the serializer stores
StoredInterests == {<<>>, TxtArtJazz, TxtArt}
                     \cup {validate_interests(v)[2] : v \in InterestInputs}

\* validate_interests, tabulated over the values a request can carry
ValidatedOf == [v \in InterestInputs |-> validate_interests(v)]

\* get_interests_list and get_bio_keywords as sets, tabulated over the texts
InterestSetOf == [s \in StoredInterests |-> ToSet(get_interests_list(s))]
KeywordsOf == [s \in BioInputs |-> get_bio_keywords(s)]
KeywordSetOf == [s \in BioInputs |-> ToSet(KeywordsOf[s])]

\* --------------------------------------------------------------------- state
VARIABLES
    profiles,      \* Profile rows: user -> [interests, bio, show_in_recommendations]
    connections,   \* Connection rows: set of [follower, following]
    likes,         \* Like rows: set of [user, post]
    comments,      \* Comment rows: set of [id, user, post]
    recs,          \* UserRecommendation rows
    now,           \* timezone.now(), in days
    invalidated,   \* history: users whose records an update deleted, not yet recomputed
    last,          \* history: the last call and what it returned
    steps,         \* the number of calls made so far
    procs          \* the requests in progress: where each is and what it holds

vars == <<profiles, connections, likes, comments, recs, now, invalidated, last, steps, procs>>

\* ------------------------------------------------- RecommendationService
FollowingIds(user) == {c.following : c \in {x \in connections : x.follower = user}}

get_mutual_connections(user_profile, target_profile) ==
    LET user_following_ids == FollowingIds(user_profile)
        target_following_ids == FollowingIds(target_profile)
        mutual_following_ids == user_following_ids \cap target_following_ids
    IN {p \in Users : p \in mutual_following_ids}

AllInterests(user) ==
    InterestSetOf[profiles[user].interests] \cup KeywordSetOf[profiles[user].bio]

\* mutant: the common interests are counted against the caller's own interests
calculate_interest_similarity_own_share(user_profile, target_profile) ==
    LET user_all_interests == AllInterests(user_profile)
        target_all_interests == AllInterests(target_profile)
        common_interests == user_all_interests \cap target_all_interests
    IN IF user_all_interests = {} \/ target_all_interests = {} THEN <<0, 0>>
       ELSE <<Cardinality(common_interests),
              (Cardinality(common_interests) * Unit) \div Cardinality(user_all_interests)>>

\* mutant: the divisor is the sum of the two sizes, not the size of the union
calculate_interest_similarity_sum_sizes(user_profile, target_profile) ==
    LET user_all_interests == AllInterests(user_profile)
        target_all_interests == AllInterests(target_profile)
        common_interests == user_all_interests \cap target_all_interests
    IN IF user_all_interests = {} \/ target_all_interests = {} THEN <<0, 0>>
       ELSE <<Cardinality(common_interests),
              (Cardinality(common_interests) * Unit)
                  \div (Cardinality(user_all_interests) + Cardinality(target_all_interests))>>

\* <<number of common interests, Jaccard similarity>>
calculate_interest_similarity(user_profile, target_profile) ==
    LET user_all_interests == AllInterests(user_profile)
        target_all_interests == AllInterests(target_profile)
        common_interests == user_all_interests \cap target_all_interests
        union_interests == user_all_interests \cup target_all_interests
    IN IF user_all_interests = {} \/ target_all_interests = {} THEN <<0, 0>>
       ELSE <<Cardinality(common_interests),
              IF union_interests # {}
              THEN (Cardinality(common_interests) * Unit) \div Cardinality(union_interests)
              ELSE 0>>

\* mutant: comments are not looked at
Interactions_likes_only(user) == {l.post : l \in {x \in likes : x.user = user}}

Interactions(user) ==
    {l.post : l \in {x \in likes : x.user = user}}
        \cup {c.post : c \in {x \in comments : x.user = user}}

calculate_activity_similarity(user_profile, target_profile) ==
    LET user_interactions == Interactions(user_profile)
        target_interactions == Interactions(target_profile)
    IN IF user_interactions = {} \/ target_interactions = {} THEN 0
       ELSE Cardinality(user_interactions \cap target_interactions)

\* mutant: the two caps are left out
weighted_total_uncapped(mutual_count, interest_similarity, activity_similarity) ==
    Mul((mutual_count * Unit) \div MutualCap, mutual_weight)
        + Mul(interest_similarity, interest_weight)
        + Mul((activity_similarity * Unit) \div ActivityCap, activity_weight)

\* the normalisation and the weighted sum of calculate_recommendation_score
weighted_total(mutual_count, interest_similarity, activity_similarity) ==
    LET mutual_score == Min((mutual_count * Unit) \div MutualCap, Unit)
        activity_score == Min((activity_similarity * Unit) \div ActivityCap, Unit)
    IN Mul(mutual_score, mutual_weight)
         + Mul(interest_similarity, interest_weight)
         + Mul(activity_score, activity_weight)

calculate_recommendation_score(user_profile, target_profile) ==
    LET mutual_connections == get_mutual_connections(user_profile, target_profile)
        mutual_count == Cardinality(mutual_connections)
        interest == calculate_interest_similarity(user_profile, target_profile)
        activity_similarity == calculate_activity_similarity(user_profile, target_profile)
        total_score == weighted_total(mutual_count, interest[2], activity_similarity)
    IN [total_score |-> total_score,
        mutual_connections_count |-> mutual_count,
        common_interests_count |-> interest[1],
        activity_similarity |-> activity_similarity,
        mutual_connections |-> mutual_connections]

Plural(count) == IF count # 1 THEN "s" ELSE ""

\* mutant: the clauses are joined by " and "
JoinReasons_and(reasons) ==
    LET RECURSIVE go(_, _)
        go(i, acc) ==
            IF i > Len(reasons) THEN acc
            ELSE go(i + 1, IF i = 1 THEN reasons[i] ELSE acc \o " and " \o reasons[i])
    IN go(1, "")

JoinReasons(reasons) ==
    LET RECURSIVE go(_, _)
        go(i, acc) ==
            IF i > Len(reasons) THEN acc
            ELSE go(i + 1, IF i = 1 THEN reasons[i] ELSE acc \o ", " \o reasons[i])
    IN go(1, "")

generate_recommendation_reason(score_data) ==
    LET r1 == IF score_data.mutual_connections_count > 0
              THEN <<ToString(score_data.mutual_connections_count) \o " mutual connection"
                       \o Plural(score_data.mutual_connections_count)>>
              ELSE <<>>
        r2 == IF score_data.common_interests_count > 0
              THEN <<ToString(score_data.common_interests_count) \o " common interest"
                       \o Plural(score_data.common_interests_count)>>
              ELSE <<>>
        r3 == IF score_data.activity_similarity > 0
              THEN <<"similar activity patterns">>
              ELSE <<>>
        reasons == r1 \o r2 \o r3
    IN IF reasons = <<>> THEN "Based on your network"
       ELSE "Based on " \o JoinReasons(reasons)

\* every order in which a finite set can be enumerated
Orders(S) ==
    {f \in [1..Cardinality(S) -> S] : \A i, j \in 1..Cardinality(S) : i # j => f[i] # f[j]}

\* mutant: users who opted out are candidates too
Candidates_ignores_optout(user_profile) ==
    {p \in Users : p \notin FollowingIds(user_profile) \cup {user_profile}}

\* the candidates of generate_recommendations_for_user
Candidates(user_profile) ==
    LET current_connections == FollowingIds(user_profile) \cup {user_profile}
    IN {p \in Users : p \notin current_connections
                        /\ profiles[p].show_in_recommendations}

Recommendation(user_profile, candidate) ==
    LET score_data == calculate_recommendation_score(user_profile, candidate)
    IN [user |-> user_profile,
        recommended_user |-> candidate,
        score |-> score_data.total_score,
        mutual_connections_count |-> score_data.mutual_connections_count,
        common_interests_count |-> score_data.common_interests_count,
        reason |-> generate_recommendation_reason(score_data),
        mutual_connections |-> score_data.mutual_connections]

\* mutant: a score equal to the threshold is dropped
Kept_strict(user_profile, min_score) ==
    {Recommendation(user_profile, c) :
        c \in {x \in Candidates(user_profile) :
                 calculate_recommendation_score(user_profile, x).total_score > min_score}}

\* the recommendations that meet the threshold
Kept(user_profile, min_score) ==
    {Recommendation(user_profile, c) :
        c \in {x \in Candidates(user_profile) :
                 calculate_recommendation_score(user_profile, x).total_score >= min_score}}

\* mutant: the list is left in enumeration order
SortedByScore_unsorted(S) == Orders(S)

\* list.sort(key=score, reverse=True) is stable: over every enumeration order of
\* the candidates it yields every order that is non-increasing in score
SortedByScore(S) ==
    {s \in Orders(S) : \A i, j \in DOMAIN s : i < j => s[i].score >= s[j].score}

\* mutant: the sorted list is not truncated
generate_untruncated(user_profile, limit, min_score) ==
    SortedByScore(Kept(user_profile, min_score))

\* the lists generate_recommendations_for_user can return
generate_recommendations_for_user(user_profile, limit, min_score) ==
    {Take(s, limit) : s \in SortedByScore(Kept(user_profile, min_score))}

\* ------------------------------------------------ UserRecommendation table
UserRecs(table, user) == {r \in table : r.user = user}

\* mutant: the rows that recommend the user are deleted too
DeleteRecs_either_side(table, user) ==
    {r \in table : r.user # user /\ r.recommended_user # user}

\* UserRecommendation.objects.filter(user=user_profile).delete()
DeleteRecs(table, user) == {r \in table : r.user # user}

\* mutant: the timestamps are not set to the time of the write
NewRow_epoch(rec_data, t) ==
    [user |-> rec_data.user,
     recommended_user |-> rec_data.recommended_user,
     score |-> rec_data.score,
     mutual_connections_count |-> rec_data.mutual_connections_count,
     common_interests_count |-> rec_data.common_interests_count,
     reason |-> rec_data.reason,
     created_at |-> 0,
     updated_at |-> 0]

\* UserRecommendation(...) built from one recommendation; auto_now_add, auto_now
NewRow(rec_data, t) ==
    [user |-> rec_data.user,
     recommended_user |-> rec_data.recommended_user,
     score |-> rec_data.score,
     mutual_connections_count |-> rec_data.mutual_connections_count,
     common_interests_count |-> rec_data.common_interests_count,
     reason |-> rec_data.reason,
     created_at |-> t,
     updated_at |-> t]

NewRows(recommendations, t) == {NewRow(recommendations[i], t) : i \in DOMAIN recommendations}

\* mutant: the table has no unique constraint
UniqueTogether_off(table, rows) == TRUE

\* Meta.unique_together = ('user', 'recommended_user'): may these rows be inserted?
UniqueTogether(table, rows) ==
    /\ \A r \in rows : \A x \in table :
          ~(x.user = r.user /\ x.recommended_user = r.recommended_user)
    /\ \A r1, r2 \in rows :
          (r1.user = r2.user /\ r1.recommended_user = r2.recommended_user) => r1 = r2

\* Meta.ordering = ['-score', '-created_at']: the orders a query can return rows in
Ordering(rows) ==
    {s \in Orders(rows) :
        \A i, j \in DOMAIN s : i < j =>
            \/ s[i].score > s[j].score
            \/ s[i].score = s[j].score /\ s[i].created_at >= s[j].created_at}

\* UserRecommendation.objects.filter(user=user_profile)[:limit], evaluated
Query(table, user, limit) == {Take(s, limit) : s \in Ordering(UserRecs(table, user))}

\* UserRecommendation.objects.bulk_create(rows): <<inserted, table>>; a row that
\* breaks unique_together raises IntegrityError and nothing is inserted
bulk_create(table, rows) ==
    IF UniqueTogether(table, rows) THEN <<TRUE, table \cup rows>> ELSE <<FALSE, table>>

\* mutant: the new rows are added to the old ones
cache_recommendations_append(table, user_profile, recommendations, t) ==
    bulk_create(table, NewRows(recommendations, t))

\* cache_recommendations run to its end with nothing in between: <<completed, table>>
cache_recommendations(table, user_profile, recommendations, t) ==
    bulk_create(DeleteRecs(table, user_profile), NewRows(recommendations, t))

\* the state of a user's cache (Absent, Fresh, Stale) at time t
CacheState(table, user, t) ==
    IF UserRecs(table, user) = {} THEN "Absent"
    ELSE IF \A r \in UserRecs(table, user) : (t - r.updated_at) > StaleDays THEN "Stale"
    ELSE "Fresh"

\* mutant: use_cache is not looked at
Branch_ignores_use_cache(use_cache, refresh_if_old, cached, first, t) ==
    IF cached # <<>>
    THEN IF refresh_if_old /\ (t - first[1].updated_at) > StaleDays
         THEN "stale_refresh"
         ELSE "cached"
    ELSE "refresh"

\* the branch get_recommendations_for_user takes, from what its queries return
Branch(use_cache, refresh_if_old, cached, first, t) ==
    IF use_cache /\ cached # <<>>
    THEN IF refresh_if_old /\ (t - first[1].updated_at) > StaleDays
         THEN "stale_refresh"
         ELSE "cached"
    ELSE "refresh"

\* ------------------------------------------------------------------ inputs
MinScores == {0, DefaultMinScore, Tenths(2)}
Advances == {StaleDays, StaleDays + 1}

NoCall == [op |-> "none", user |-> 0, target |-> 0, limit |-> -1, use_cache |-> FALSE,
           refresh_if_old |-> FALSE, min_score |-> -1, before |-> "", invalidated |-> FALSE,
           branch |-> "", status |-> 0, generated |-> <<>>, result |-> <<>>]

Idle == [pc |-> "idle", op |-> "none", user |-> 0, limit |-> -1, use_cache |-> FALSE,
         refresh_if_old |-> FALSE, branch |-> "", recommendations |-> <<>>,
         old |-> {}, during |-> {}, result |-> <<>>]

\* ---------------------------------------------------------------------- Init
InitProfiles ==
    [u \in Users |->
        [interests |-> IF u = 1 THEN TxtArtJazz ELSE IF u = 2 THEN TxtArt ELSE <<>>,
         bio |-> IF u = 3 THEN TxtBio ELSE <<>>,
         show_in_recommendations |-> TRUE]]

Init ==
    /\ profiles = InitProfiles
    /\ connections = {}
    /\ likes = {}
    /\ comments = {}
    /\ recs = {}
    /\ now = 0
    /\ invalidated = {}
    /\ last = NoCall
    /\ steps = 0
    /\ procs = [p \in Procs |-> Idle]

\* ------------------------------------------------------------------- actions
\* mutant: the generated list is written to the table
Generate_caches(u, limit, min_score) ==
    /\ \E recommendations \in generate_recommendations_for_user(u, limit, min_score) :
          /\ last' = [NoCall EXCEPT !.op = "generate", !.user = u, !.limit = limit,
                                    !.min_score = min_score, !.result = recommendations]
          /\ recs' = cache_recommendations(recs, u, recommendations, now)[2]
    /\ UNCHANGED <<profiles, connections, likes, comments, now, invalidated>>

\* RecommendationService.generate_recommendations_for_user, called on its own
Generate(u, limit, min_score) ==
    /\ \E recommendations \in generate_recommendations_for_user(u, limit, min_score) :
          last' = [NoCall EXCEPT !.op = "generate", !.user = u, !.limit = limit,
                                 !.min_score = min_score, !.result = recommendations]
    /\ UNCHANGED <<profiles, connections, likes, comments, recs, now, invalidated>>

\* mutant: everything that qualifies is cached, only the answer is limited
refresh_recommendations_caches_all(call, u, limit) ==
    \E recommendations \in
           generate_recommendations_for_user(u, RefreshLimit, DefaultMinScore) :
        LET cached == cache_recommendations(recs, u, recommendations, now)
        IN /\ recs' = cached[2]
           /\ invalidated' = invalidated \ {u}
           /\ IF cached[1]
              THEN \E result \in Query(recs', u, limit) :
                      last' = [call EXCEPT !.generated = recommendations,
                                           !.status = 200, !.result = result]
              ELSE last' = [call EXCEPT !.generated = recommendations, !.status = 500]

\* RecommendationService._refresh_recommendations; the QuerySet it returns is
\* evaluated by the caller right away
refresh_recommendations_(call, u, limit) ==
    \E recommendations \in generate_recommendations_for_user(u, limit, DefaultMinScore) :
        LET cached == cache_recommendations(recs, u, recommendations, now)
        IN /\ recs' = cached[2]
           /\ invalidated' = invalidated \ {u}
           /\ IF cached[1]
              THEN \E result \in Query(recs', u, limit) :
                      last' = [call EXCEPT !.generated = recommendations,
                                           !.status = 200, !.result = result]
              ELSE last' = [call EXCEPT !.generated = recommendations, !.status = 500]

\* RecommendationService.get_recommendations_for_user
GetRecommendations(u, limit, use_cache, refresh_if_old) ==
    \E cached \in Query(recs, u, limit), first \in Query(recs, u, Min(limit, 1)) :
        LET branch == Branch(use_cache, refresh_if_old, cached, first, now)
            call == [NoCall EXCEPT !.op = "get", !.user = u, !.limit = limit,
                                   !.use_cache = use_cache,
                                   !.refresh_if_old = refresh_if_old,
                                   !.min_score = DefaultMinScore,
                                   !.before = CacheState(recs, u, now),
                                   !.invalidated = (u \in invalidated),
                                   !.branch = branch]
        IN /\ IF branch = "cached"
              THEN /\ UNCHANGED <<recs, invalidated>>
                   /\ last' = [call EXCEPT !.status = 200, !.result = cached]
              ELSE refresh_recommendations_(call, u, limit)
           /\ UNCHANGED <<profiles, connections, likes, comments, now>>

\* views.refresh_recommendations
RefreshRecommendations(u) ==
    /\ \E recommendations \in
              generate_recommendations_for_user(u, RefreshLimit, DefaultMinScore) :
          LET cached == cache_recommendations(DeleteRecs(recs, u), u, recommendations, now)
          IN /\ recs' = cached[2]
             /\ last' = [NoCall EXCEPT !.op = "refresh", !.user = u,
                                       !.limit = RefreshLimit,
                                       !.min_score = DefaultMinScore,
                                       !.before = CacheState(recs, u, now),
                                       !.status = IF cached[1] THEN 200 ELSE 500,
                                       !.generated = recommendations]
    /\ invalidated' = invalidated \ {u}
    /\ UNCHANGED <<profiles, connections, likes, comments, now>>

\* mutant: a new connection deletes the follower's cached records
FollowUser_invalidates(u, target) ==
    /\ IF target = u
       THEN /\ UNCHANGED <<connections, recs>>
            /\ last' = [NoCall EXCEPT !.op = "follow", !.user = u, !.target = target,
                                      !.status = 400, !.branch = "self"]
       ELSE IF [follower |-> u, following |-> target] \in connections
       THEN /\ UNCHANGED <<connections, recs>>
            /\ last' = [NoCall EXCEPT !.op = "follow", !.user = u, !.target = target,
                                      !.status = 400, !.branch = "already"]
       ELSE /\ connections' = connections \cup {[follower |-> u, following |-> target]}
            /\ recs' = DeleteRecs(recs, u)
            /\ last' = [NoCall EXCEPT !.op = "follow", !.user = u, !.target = target,
                                      !.status = 200, !.branch = "created"]
    /\ UNCHANGED <<profiles, likes, comments, now, invalidated>>

\* mutant: following oneself is not refused
FollowUser_allows_self(u, target) ==
    /\ IF [follower |-> u, following |-> target] \in connections
       THEN /\ connections' = connections
            /\ last' = [NoCall EXCEPT !.op = "follow", !.user = u, !.target = target,
                                      !.status = 400, !.branch = "already"]
       ELSE /\ connections' = connections \cup {[follower |-> u, following |-> target]}
            /\ last' = [NoCall EXCEPT !.op = "follow", !.user = u, !.target = target,
                                      !.status = 200, !.branch = "created"]
    /\ UNCHANGED <<profiles, likes, comments, recs, now, invalidated>>

\* views.follow_user
FollowUser(u, target) ==
    /\ IF target = u
       THEN /\ connections' = connections
            /\ last' = [NoCall EXCEPT !.op = "follow", !.user = u, !.target = target,
                                      !.status = 400, !.branch = "self"]
       ELSE IF [follower |-> u, following |-> target] \in connections
       THEN /\ connections' = connections
            /\ last' = [NoCall EXCEPT !.op = "follow", !.user = u, !.target = target,
                                      !.status = 400, !.branch = "already"]
       ELSE /\ connections' = connections \cup {[follower |-> u, following |-> target]}
            /\ last' = [NoCall EXCEPT !.op = "follow", !.user = u, !.target = target,
                                      !.status = 200, !.branch = "created"]
    /\ UNCHANGED <<profiles, likes, comments, recs, now, invalidated>>

\* views.unfollow_user
UnfollowUser(u, target) ==
    /\ IF [follower |-> u, following |-> target] \in connections
       THEN /\ connections' = connections \ {[follower |-> u, following |-> target]}
            /\ last' = [NoCall EXCEPT !.op = "unfollow", !.user = u, !.target = target,
                                      !.status = 200, !.branch = "deleted"]
       ELSE /\ connections' = connections
            /\ last' = [NoCall EXCEPT !.op = "unfollow", !.user = u, !.target = target,
                                      !.status = 400, !.branch = "not_following"]
    /\ UNCHANGED <<profiles, likes, comments, recs, now, invalidated>>

\* PostViewSet.like
LikePost(u, post) ==
    /\ IF [user |-> u, post |-> post] \in likes
       THEN /\ likes' = likes
            /\ last' = [NoCall EXCEPT !.op = "like", !.user = u, !.target = post,
                                      !.status = 400]
       ELSE /\ likes' = likes \cup {[user |-> u, post |-> post]}
            /\ last' = [NoCall EXCEPT !.op = "like", !.user = u, !.target = post,
                                      !.status = 200]
    /\ UNCHANGED <<profiles, connections, comments, recs, now, invalidated>>

\* PostViewSet.unlike
UnlikePost(u, post) ==
    /\ likes' = likes \ {[user |-> u, post |-> post]}
    /\ last' = [NoCall EXCEPT !.op = "unlike", !.user = u, !.target = post,
                              !.status = IF [user |-> u, post |-> post] \in likes
                                         THEN 200 ELSE 400]
    /\ UNCHANGED <<profiles, connections, comments, recs, now, invalidated>>

\* mutant: nothing is deleted
refresh_user_recommendations_keeps(table, profile) == table

\* ProfileDetailView._refresh_user_recommendations
refresh_user_recommendations(table, profile) == DeleteRecs(table, profile)

\* ProfileDetailView.update by the profile's owner, with the interests in the request
UpdateInterests(u, value) ==
    LET checked == ValidatedOf[value]
    IN /\ IF checked[1]
          THEN /\ profiles' = [profiles EXCEPT ![u].interests = checked[2]]
               /\ recs' = refresh_user_recommendations(recs, u)
               /\ invalidated' = IF UserRecs(recs, u) # {} THEN invalidated \cup {u}
                                                         ELSE invalidated
               /\ last' = [NoCall EXCEPT !.op = "update", !.user = u, !.status = 200,
                                         !.before = CacheState(recs, u, now)]
          ELSE /\ UNCHANGED <<profiles, recs, invalidated>>
               /\ last' = [NoCall EXCEPT !.op = "update", !.user = u, !.status = 500]
       /\ UNCHANGED <<connections, likes, comments, now>>

\* views.user_profile, PATCH with the interests in the request
PatchInterests(u, value) ==
    LET checked == ValidatedOf[value]
    IN /\ IF checked[1]
          THEN /\ profiles' = [profiles EXCEPT ![u].interests = checked[2]]
               /\ last' = [NoCall EXCEPT !.op = "patch", !.user = u, !.status = 200,
                                         !.before = CacheState(recs, u, now)]
          ELSE /\ UNCHANGED profiles
               /\ last' = [NoCall EXCEPT !.op = "patch", !.user = u, !.status = 400]
       /\ UNCHANGED <<connections, likes, comments, recs, now, invalidated>>

\* ProfileDetailView.update by the profile's owner, setting show_in_recommendations
UpdateVisibility(u, value) ==
    /\ profiles' = [profiles EXCEPT ![u].show_in_recommendations = value]
    /\ last' = [NoCall EXCEPT !.op = "visibility", !.user = u, !.status = 200]
    /\ UNCHANGED <<connections, likes, comments, recs, now, invalidated>>

\* the clock moves on
AdvanceTime(d) ==
    /\ now + d <= MaxTime
    /\ now' = now + d
    /\ last' = [NoCall EXCEPT !.op = "advance"]
    /\ UNCHANGED <<profiles, connections, likes, comments, recs, invalidated>>

Step ==
    /\ steps < MaxSteps
    /\ steps' = steps + 1
    /\ UNCHANGED procs

Next ==
    \/ \E u \in Users, limit \in Limits : Step /\ Generate(u, limit, DefaultMinScore)
    \/ \E u \in Users, limit \in Limits, use_cache \in BOOLEAN, refresh_if_old \in BOOLEAN :
          Step /\ GetRecommendations(u, limit, use_cache, refresh_if_old)
    \/ \E u \in Users : Step /\ RefreshRecommendations(u)
    \/ \E u \in Users, target \in Users : Step /\ FollowUser(u, target)
    \/ \E u \in Users, target \in Users : Step /\ UnfollowUser(u, target)
    \/ \E u \in Users, post \in Posts : Step /\ LikePost(u, post)
    \/ \E u \in Users, post \in Posts : Step /\ UnlikePost(u, post)
    \/ \E u \in Users, value \in InterestInputs : Step /\ UpdateInterests(u, value)
    \/ \E u \in Users, value \in InterestInputs : Step /\ PatchInterests(u, value)
    \/ \E u \in Users, value \in BOOLEAN : Step /\ UpdateVisibility(u, value)
    \/ \E d \in Advances : Step /\ AdvanceTime(d)

Spec == Init /\ [][Next]_vars

\* --------------------------------- generation over every graph and every flag
AllEdges == {[follower |-> e[1], following |-> e[2]] : e \in {x \in Users \X Users : x[1] # x[2]}}
AllLikes == {[user |-> e[1], post |-> e[2]] : e \in Users \X Posts}

InitGen ==
    /\ \E i1 \in {<<>>, TxtArtJazz}, i2 \in {TxtArt, TxtArtJazz}, show \in [Users -> BOOLEAN] :
          profiles = [u \in Users |->
              [interests |-> IF u = 1 THEN i1 ELSE IF u = 2 THEN i2 ELSE <<>>,
               bio |-> IF u = 3 THEN TxtBio ELSE <<>>,
               show_in_recommendations |-> show[u]]]
    /\ connections \in SUBSET AllEdges
    /\ likes \in SUBSET AllLikes
    /\ comments = {}
    /\ recs = {}
    /\ now = 0
    /\ invalidated = {}
    /\ last = NoCall
    /\ steps = 0
    /\ procs = [p \in Procs |-> Idle]

NextGen ==
    \E u \in Users, limit \in Limits, min_score \in MinScores :
        /\ steps = 0
        /\ steps' = 1
        /\ Generate(u, limit, min_score)
        /\ UNCHANGED procs

SpecGen == InitGen /\ [][NextGen]_vars

\* ------------------------------------------- requests running side by side
\* Every database statement is its own transaction (autocommit; neither
\* cache_recommendations nor its callers open transaction.atomic), so another
\* request can run between any two statements of a request.
Data == <<profiles, connections, likes, comments>>
Ready(p) == procs[p].pc \in {"idle", "done", "error"}
At(p, pc) == procs[p].pc = pc
\* a request is taken by the first worker that is not serving one
Free(p) == Ready(p) /\ \A q \in Procs : q < p => ~Ready(q)

Called ==
    /\ steps < MaxCalls
    /\ steps' = steps + 1

\* get_recommendations_for_user is entered
CallGet(p, u, limit, use_cache, refresh_if_old) ==
    /\ Free(p)
    /\ Called
    /\ procs' = [procs EXCEPT ![p] =
          [Idle EXCEPT !.pc = IF use_cache THEN "exists" ELSE "generate",
                       !.op = "get", !.user = u, !.limit = limit,
                       !.use_cache = use_cache, !.refresh_if_old = refresh_if_old,
                       !.branch = "refresh"]]
    /\ UNCHANGED <<Data, recs, now, invalidated, last>>

\* views.refresh_recommendations is entered
CallRefresh(p, u) ==
    /\ Free(p)
    /\ Called
    /\ procs' = [procs EXCEPT ![p] =
          [Idle EXCEPT !.pc = "view_delete", !.op = "refresh", !.user = u,
                       !.limit = RefreshLimit, !.branch = "refresh"]]
    /\ UNCHANGED <<Data, recs, now, invalidated, last>>

\* cached_recommendations.exists()
StepExists(p) ==
    /\ At(p, "exists")
    /\ \E cached \in Query(recs, procs[p].user, procs[p].limit) :
          procs' = [procs EXCEPT ![p].pc =
                       IF cached = <<>> THEN "generate"
                       ELSE IF procs[p].refresh_if_old THEN "first" ELSE "list"]
    /\ UNCHANGED <<Data, recs, now, invalidated, last, steps>>

\* cached_recommendations.first() and the age of the row it returns; with no
\* row left it returns None and latest_rec.updated_at raises
StepFirst(p) ==
    /\ At(p, "first")
    /\ \E first \in Query(recs, procs[p].user, Min(procs[p].limit, 1)) :
          procs' = [procs EXCEPT ![p] =
              IF first = <<>> THEN [@ EXCEPT !.pc = "error", !.branch = "none_first"]
              ELSE IF (now - first[1].updated_at) > StaleDays
              THEN [@ EXCEPT !.pc = "generate", !.branch = "stale_refresh"]
              ELSE [@ EXCEPT !.pc = "list"]]
    /\ UNCHANGED <<Data, recs, now, invalidated, last, steps>>

\* the replacements of this user's rows that have deleted and not yet inserted
InFlight(u) ==
    {[old |-> procs[w].old, recommendations |-> procs[w].recommendations] :
        w \in {x \in Procs : procs[x].pc = "bulk_create" /\ procs[x].user = u}}

\* list(cached_recommendations)
StepList(p) ==
    /\ At(p, "list")
    /\ \E cached \in Query(recs, procs[p].user, procs[p].limit) :
          procs' = [procs EXCEPT ![p] =
              [@ EXCEPT !.pc = "done", !.branch = "cached", !.result = cached,
                        !.during = InFlight(procs[p].user)]]
    /\ UNCHANGED <<Data, recs, now, invalidated, last, steps>>

\* generate_recommendations_for_user(user_profile, limit=limit)
StepGenerate(p) ==
    /\ At(p, "generate")
    /\ \E recommendations \in
            generate_recommendations_for_user(procs[p].user, procs[p].limit, DefaultMinScore) :
          procs' = [procs EXCEPT ![p] =
              [@ EXCEPT !.pc = "delete", !.recommendations = recommendations]]
    /\ UNCHANGED <<Data, recs, now, invalidated, last, steps>>

\* views.refresh_recommendations: the delete before the generation
StepViewDelete(p) ==
    /\ At(p, "view_delete")
    /\ recs' = DeleteRecs(recs, procs[p].user)
    /\ procs' = [procs EXCEPT ![p].pc = "generate"]
    /\ UNCHANGED <<Data, now, invalidated, last, steps>>

\* cache_recommendations: the delete
StepDelete(p) ==
    /\ At(p, "delete")
    /\ recs' = DeleteRecs(recs, procs[p].user)
    /\ procs' = [procs EXCEPT ![p] =
          [@ EXCEPT !.pc = "bulk_create", !.old = UserRecs(recs, procs[p].user)]]
    /\ UNCHANGED <<Data, now, invalidated, last, steps>>

\* cache_recommendations: the bulk_create
StepBulkCreate(p) ==
    /\ At(p, "bulk_create")
    /\ LET created == bulk_create(recs, NewRows(procs[p].recommendations, now))
       IN /\ recs' = created[2]
          /\ procs' = [procs EXCEPT ![p] =
                IF ~created[1] THEN [@ EXCEPT !.pc = "error", !.branch = "integrity"]
                ELSE IF procs[p].op = "get" THEN [@ EXCEPT !.pc = "result"]
                ELSE [@ EXCEPT !.pc = "done"]]
    /\ UNCHANGED <<Data, now, invalidated, last, steps>>

\* _refresh_recommendations: the QuerySet it returns, evaluated by the caller
StepResult(p) ==
    /\ At(p, "result")
    /\ \E result \in Query(recs, procs[p].user, procs[p].limit) :
          procs' = [procs EXCEPT ![p] = [@ EXCEPT !.pc = "done", !.result = result]]
    /\ UNCHANGED <<Data, recs, now, invalidated, last, steps>>

\* the clock moves on while requests run
Tick(d) ==
    /\ now + d <= MaxTime
    /\ now' = now + d
    /\ UNCHANGED <<Data, recs, invalidated, last, steps, procs>>

NextConc ==
    \/ \E p \in Procs, u \in Users, limit \in Limits \ {0},
          use_cache \in BOOLEAN, refresh_if_old \in BOOLEAN :
          CallGet(p, u, limit, use_cache, refresh_if_old)
    \/ \E p \in Procs, u \in Users : CallRefresh(p, u)
    \/ \E p \in Procs : StepExists(p)
    \/ \E p \in Procs : StepFirst(p)
    \/ \E p \in Procs : StepList(p)
    \/ \E p \in Procs : StepGenerate(p)
    \/ \E p \in Procs : StepViewDelete(p)
    \/ \E p \in Procs : StepDelete(p)
    \/ \E p \in Procs : StepBulkCreate(p)
    \/ \E p \in Procs : StepResult(p)
    \/ \E u \in Users, value \in InterestInputs :
          Called /\ UpdateInterests(u, value) /\ UNCHANGED procs
    \/ Tick(StaleDays + 1)

\* every user's cache holds a complete generation made at time 0
InitConc ==
    /\ profiles = InitProfiles
    /\ connections = {}
    /\ likes = {}
    /\ comments = {}
    /\ \E gen \in [Users -> UNION {generate_recommendations_for_user(u, MaxLimit, DefaultMinScore)
                                      : u \in Users}] :
          /\ \A u \in Users :
                gen[u] \in generate_recommendations_for_user(u, MaxLimit, DefaultMinScore)
          /\ recs = UNION {NewRows(gen[u], 0) : u \in Users}
    /\ now = 0
    /\ invalidated = {}
    /\ last = NoCall
    /\ steps = 0
    /\ procs = [p \in Procs |-> Idle]

SpecConc == InitConc /\ [][NextConc]_vars

\* --------------------------------- the scoring functions over every store
\* Connection has no constraint against follower = following (follow_user
\* refuses it, the table does not), so its rows are drawn from every pair.
AllPairs == {[follower |-> e[1], following |-> e[2]] : e \in Users \X Users}

\* Comment has no unique constraint: user 1 may comment on a post several times
CommentIds == 1..MaxComments
AllComments == {[id |-> i, user |-> 1, post |-> p] : i \in CommentIds, p \in Posts}

InitFn ==
    /\ \E i1 \in {<<>>, TxtArtJazz}, b3 \in {TxtBio, TxtPhotographer} :
          profiles = [u \in Users |->
              [interests |-> IF u = 1 THEN i1 ELSE IF u = 2 THEN TxtArtJazz ELSE <<>>,
               bio |-> IF u = 3 THEN b3 ELSE <<>>,
               show_in_recommendations |-> TRUE]]
    /\ connections \in SUBSET AllPairs
    /\ likes \in SUBSET AllLikes
    /\ comments \in SUBSET AllComments
    /\ recs = {}
    /\ now = 0
    /\ invalidated = {}
    /\ last = NoCall
    /\ steps = 0
    /\ procs = [p \in Procs |-> Idle]

\* RecommendationService.calculate_recommendation_score for one pair, with what
\* the three functions it calls return, and the reason made from its result
Score(a, b) ==
    LET score_data == calculate_recommendation_score(a, b)
    IN /\ last' = [NoCall EXCEPT
              !.op = "score", !.user = a, !.target = b,
              !.result = <<[mutual_connections |-> get_mutual_connections(a, b),
                            interest_similarity |-> calculate_interest_similarity(a, b),
                            activity_similarity |-> calculate_activity_similarity(a, b),
                            score_data |-> score_data,
                            reason |-> generate_recommendation_reason(score_data)]>>]
       /\ UNCHANGED <<profiles, connections, likes, comments, recs, now, invalidated>>

\* Profile.get_bio_keywords
BioKeywords(u) ==
    /\ last' = [NoCall EXCEPT !.op = "keywords", !.user = u,
                              !.result = KeywordsOf[profiles[u].bio]]
    /\ UNCHANGED <<profiles, connections, likes, comments, recs, now, invalidated>>

Once ==
    /\ steps = 0
    /\ steps' = 1
    /\ UNCHANGED procs

NextFn ==
    \/ \E a \in Users, b \in Users : Once /\ Score(a, b)
    \/ \E u \in Users : Once /\ BioKeywords(u)

SpecFn == InitFn /\ [][NextFn]_vars

\* ------------------------------ the weighted sum over counts past the caps
\* the Jaccard values of sets whose union has at most MaxUnion elements
Jaccards == UNION {{(c * Unit) \div n : c \in 0..n} : n \in 1..MaxUnion}

ScoreInputs ==
    [mutual_count : 0..MaxMutual, interest_similarity : Jaccards,
     activity_similarity : 0..MaxOverlap]

InitTotal ==
    /\ profiles = InitProfiles
    /\ connections = {}
    /\ likes = {}
    /\ comments = {}
    /\ recs = {}
    /\ now = 0
    /\ invalidated = {}
    /\ \E in \in ScoreInputs : last = [NoCall EXCEPT !.op = "inputs", !.result = <<in>>]
    /\ steps = 0
    /\ procs = [p \in Procs |-> Idle]

\* lines 385-399 of calculate_recommendation_score on the counts it was given
Total ==
    LET in == last.result[1]
    IN /\ last.op = "inputs"
       /\ last' = [last EXCEPT
              !.op = "total",
              !.generated = <<weighted_total(in.mutual_count, in.interest_similarity,
                                             in.activity_similarity)>>]
       /\ UNCHANGED <<profiles, connections, likes, comments, recs, now, invalidated>>

NextTotal == Once /\ Total

SpecTotal == InitTotal /\ [][NextTotal]_vars

\* ------------------------------------ generation when one scoring raises
\* calculate_recommendation_score runs several database queries; the loop of
\* generate_recommendations_for_user calls it with no try/except around it, so
\* an exception raised while `bad` is scored leaves the function.
GenerateRaising(u, limit, min_score, bad) ==
    LET call == [NoCall EXCEPT !.op = "generate", !.user = u, !.limit = limit,
                               !.min_score = min_score, !.target = bad]
    IN /\ IF bad \in Candidates(u)
          THEN last' = [call EXCEPT !.branch = "raised", !.status = 500]
          ELSE \E recommendations \in generate_recommendations_for_user(u, limit, min_score) :
                  last' = [call EXCEPT !.branch = "returned", !.status = 200,
                                       !.result = recommendations]
       /\ UNCHANGED <<profiles, connections, likes, comments, recs, now, invalidated>>

InitRaising ==
    /\ profiles = InitProfiles
    /\ connections \in SUBSET AllEdges
    /\ likes = {}
    /\ comments = {}
    /\ recs = {}
    /\ now = 0
    /\ invalidated = {}
    /\ last = NoCall
    /\ steps = 0
    /\ procs = [p \in Procs |-> Idle]

NextRaising ==
    \E u \in Users, limit \in Limits, bad \in Users :
        Once /\ GenerateRaising(u, limit, DefaultMinScore, bad)

SpecRaising == InitRaising /\ [][NextRaising]_vars

\* ------------------------------------------------------------------- claims
\* C1: a reader of u's rows that runs while cache_recommendations replaces them
\* sees the complete old rows or the complete new rows, nothing in between
C1_ReadersSeeOldOrNew ==
    \A p \in Procs :
        (procs[p].pc = "done" /\ procs[p].branch = "cached") =>
            \A d \in procs[p].during :
                \/ procs[p].result \in Query(d.old, procs[p].user, procs[p].limit)
                \/ \E t \in 0..MaxTime :
                      procs[p].result \in
                          Query(NewRows(d.recommendations, t), procs[p].user, procs[p].limit)

\* C3: the table holds at most one row per (user, recommended_user)
C3_OneRowPerPair ==
    \A r1, r2 \in recs :
        (r1.user = r2.user /\ r1.recommended_user = r2.recommended_user) => r1 = r2

C3_Witness ==
    \E p \in Procs :
        /\ procs[p].pc = "done" /\ procs[p].branch \in {"refresh", "stale_refresh"}
        /\ procs[p].old # {}
        /\ UserRecs(recs, procs[p].user) # {}
        /\ \E q \in Procs \ {p} : procs[q].branch = "integrity"

Recomputed == last.op \in {"get", "refresh"} /\ last.branch # "cached" /\ last.status = 200

\* the row carries what the recommendation holds
Carries(row, rec_data) ==
    /\ row.user = rec_data.user
    /\ row.recommended_user = rec_data.recommended_user
    /\ row.score = rec_data.score
    /\ row.mutual_connections_count = rec_data.mutual_connections_count
    /\ row.common_interests_count = rec_data.common_interests_count
    /\ row.reason = rec_data.reason

\* C2: once cache_recommendations(u, recs) has completed, the rows of u are one
\* row per element of recs, carrying its fields, and no earlier row of u is left
C2_ReplaceAllExact ==
    Recomputed =>
        LET mine == UserRecs(recs, last.user)
        IN /\ Cardinality(mine) = Len(last.generated)
           /\ \A i \in DOMAIN last.generated :
                 \E r \in mine : Carries(r, last.generated[i])
           /\ \A r \in mine :
                 /\ r.created_at = now
                 /\ \E i \in DOMAIN last.generated : Carries(r, last.generated[i])

C2_Witness ==
    /\ last.op = "get" /\ last.branch = "stale_refresh" /\ last.status = 200
    /\ last.before = "Stale"
    /\ Len(last.generated) >= 1

\* C4: with use_cache=False the call recomputes whatever the cache held: the rows
\* of the user are those of a generation over the current data, and the rows
\* returned are among them
C4_NoCacheAlwaysRecomputes ==
    (last.op = "get" /\ ~last.use_cache) =>
        /\ last.branch = "refresh"
        /\ last.generated \in
              generate_recommendations_for_user(last.user, last.limit, DefaultMinScore)
        /\ UserRecs(recs, last.user) = NewRows(last.generated, now)
        /\ last.result \in Query(recs, last.user, last.limit)
        /\ \A i \in DOMAIN last.result : last.result[i].created_at = now

C4_Witness ==
    /\ last.op = "get" /\ ~last.use_cache /\ last.before = "Fresh"
    /\ last.result # <<>>

\* C5: with use_cache=True and a Fresh cache the call returns the cached rows,
\* the first `limit` in the order (-score, -created_at), and does not recompute
C5_FreshReturnsCached ==
    (last.op = "get" /\ last.use_cache /\ last.before = "Fresh") =>
        /\ last.branch = "cached"
        /\ last.result \in Query(recs, last.user, last.limit)

\* C6: with use_cache=True and a Stale cache the call recomputes when
\* refresh_if_old is set, and returns the stale rows without recomputing otherwise
C6_StaleFollowsRefreshIfOld ==
    (last.op = "get" /\ last.use_cache /\ last.before = "Stale") =>
        IF last.refresh_if_old
        THEN last.branch # "cached" /\ UserRecs(recs, last.user) = NewRows(last.generated, now)
        ELSE last.branch = "cached" /\ last.result \in Query(recs, last.user, last.limit)

\* C7: an invalidation leaves the user with no rows, and the next cache-aware get
\* finds the cache Absent and recomputes: what it returns is newly generated
C7_InvalidateThenRecompute ==
    /\ (last.op = "update" /\ last.status = 200) =>
          CacheState(recs, last.user, now) = "Absent"
    /\ (last.op = "get" /\ last.use_cache /\ last.invalidated) =>
          /\ last.before = "Absent"
          /\ last.branch = "refresh"
          /\ UserRecs(recs, last.user) = NewRows(last.generated, now)
          /\ last.result \in Query(recs, last.user, last.limit)

C7_Witness ==
    /\ last.op = "get" /\ last.use_cache /\ last.invalidated
    /\ last.result # <<>>

\* the candidates that may be recommended to u and score at least min_score
Qualifying(u, min_score) ==
    {c \in Users :
        /\ c # u
        /\ [follower |-> u, following |-> c] \notin connections
        /\ profiles[c].show_in_recommendations
        /\ calculate_recommendation_score(u, c).total_score >= min_score}

\* C8: every candidate generate returns is eligible: not the user, not followed
\* by the user, and showing in recommendations
C8_OnlyEligible ==
    last.op = "generate" =>
        \A i \in DOMAIN last.result :
            LET c == last.result[i].recommended_user
            IN /\ c # last.user
               /\ [follower |-> last.user, following |-> c] \notin connections
               /\ profiles[c].show_in_recommendations

C8_Witness ==
    /\ last.op = "generate" /\ last.result # <<>>
    /\ \E v \in Users \ {last.user} :
          /\ \/ [follower |-> last.user, following |-> v] \in connections
             \/ ~profiles[v].show_in_recommendations
          /\ calculate_recommendation_score(last.user, v).total_score >= last.min_score

\* C9: every candidate generate returns scores at least min_score, and a
\* candidate scoring exactly min_score is kept unless the limit cuts it off
C9_ThresholdInclusive ==
    last.op = "generate" =>
        /\ \A i \in DOMAIN last.result : last.result[i].score >= last.min_score
        /\ \A c \in Qualifying(last.user, last.min_score) :
              calculate_recommendation_score(last.user, c).total_score = last.min_score
                  => \/ \E i \in DOMAIN last.result : last.result[i].recommended_user = c
                     \/ Len(last.result) = last.limit

C9_Witness ==
    /\ last.op = "generate" /\ last.min_score > 0
    /\ \E i \in DOMAIN last.result : last.result[i].score = last.min_score

\* C10: generate returns min(limit, number of qualifying candidates) entries and
\* get returns at most limit entries, on every branch
C10_LimitRespected ==
    /\ last.op = "generate" =>
          Len(last.result) = Min(last.limit, Cardinality(Qualifying(last.user, last.min_score)))
    /\ last.op = "get" => Len(last.result) <= last.limit

C10_Witness ==
    /\ last.op = "generate" /\ last.limit > 0
    /\ Len(last.result) = last.limit
    /\ Cardinality(Qualifying(last.user, last.min_score)) > last.limit

\* C11: the list generate returns is non-increasing in score, and every
\* qualifying candidate the truncation leaves out scores no more than any
\* candidate returned
C11_SortedTopEntries ==
    last.op = "generate" =>
        /\ \A i, j \in DOMAIN last.result :
              i < j => last.result[i].score >= last.result[j].score
        /\ \A c \in Qualifying(last.user, last.min_score) :
              (\A i \in DOMAIN last.result : last.result[i].recommended_user # c)
                  => \A i \in DOMAIN last.result :
                        calculate_recommendation_score(last.user, c).total_score
                            <= last.result[i].score

C11_Witness ==
    /\ last.op = "generate" /\ last.result # <<>>
    /\ \E c \in Qualifying(last.user, last.min_score) :
          /\ \A i \in DOMAIN last.result : last.result[i].recommended_user # c
          /\ calculate_recommendation_score(last.user, c).total_score
                < last.result[Len(last.result)].score

\* C12: two consecutive calls of generate with the same arguments over
\* unchanged data return the same list, in the same order
C12_SameCallSameList ==
    [][(/\ last.op = "generate" /\ last'.op = "generate"
        /\ last'.user = last.user /\ last'.limit = last.limit
        /\ last'.min_score = last.min_score
        /\ UNCHANGED <<profiles, connections, likes, comments>>)
          => last'.result = last.result]_vars

\* C13: a call of generate changes no stored row: not the cached
\* recommendations of any user, not a connection, like, comment or profile
C13_GenerateChangesNothing ==
    [][(steps' = steps + 1 /\ last'.op = "generate")
          => UNCHANGED <<profiles, connections, likes, comments, recs>>]_vars

C13_Witness ==
    /\ last.op = "generate" /\ last.result # <<>>
    /\ UserRecs(recs, last.user) # {}
    /\ {r.recommended_user : r \in UserRecs(recs, last.user)}
          # {last.result[i].recommended_user : i \in DOMAIN last.result}

\* C14: get_mutual_connections(a, b) is exactly the set of users both a and b
\* follow, and holds neither a nor b, whatever rows the Connection table holds
C14_MutualExcludesPair ==
    last.op = "score" =>
        LET mutual == last.result[1].mutual_connections
        IN /\ mutual = {p \in Users :
                           /\ [follower |-> last.user, following |-> p] \in connections
                           /\ [follower |-> last.target, following |-> p] \in connections}
           /\ last.user \notin mutual
           /\ last.target \notin mutual

\* C15: calculate_interest_similarity and get_mutual_connections give the same
\* result with their two arguments exchanged
C15_Symmetric ==
    last.op = "score" =>
        /\ last.result[1].interest_similarity
              = calculate_interest_similarity(last.target, last.user)
        /\ last.result[1].mutual_connections
              = get_mutual_connections(last.target, last.user)

C15_Witness ==
    /\ last.op = "score" /\ last.user # last.target
    /\ AllInterests(last.user) # AllInterests(last.target)
    /\ last.result[1].interest_similarity[1] > 0
    /\ FollowingIds(last.user) # FollowingIds(last.target)
    /\ last.result[1].mutual_connections # {}

\* C16: calculate_interest_similarity returns (|A \cap B|, |A \cap B| / |A \cup B|)
\* for the combined sets A and B; the value lies in [0, 1], is 0 for disjoint
\* sets, and the result is (0, 0.0) when A or B is empty
C16_Jaccard ==
    last.op = "score" =>
        LET A == AllInterests(last.user)
            B == AllInterests(last.target)
            r == last.result[1].interest_similarity
        IN /\ (A = {} \/ B = {}) => r = <<0, 0>>
           /\ (A # {} /\ B # {}) =>
                 /\ r[1] = Cardinality(A \cap B)
                 /\ r[2] * Cardinality(A \cup B) = Cardinality(A \cap B) * Unit
           /\ 0 <= r[2] /\ r[2] <= Unit
           /\ A \cap B = {} => r[2] = 0

C16_Witness ==
    /\ last.op = "score"
    /\ AllInterests(last.user) # {} /\ AllInterests(last.target) # {}
    /\ 0 < last.result[1].interest_similarity[2]
    /\ last.result[1].interest_similarity[2] < Unit

\* C17: total = 0.4 * min(mutual/5, 1) + 0.4 * jaccard + 0.2 * min(activity/10, 1);
\* the weights sum to 1, the total lies in [0, 1], and a mutual count above 5
\* or an activity overlap above 10 scores as 5 or 10 does
C17_WeightedTotal ==
    last.op = "total" =>
        LET in == last.result[1]
            total == last.generated[1]
        IN /\ 50 * total = 4 * Unit * Min(in.mutual_count, MutualCap)
                             + 20 * in.interest_similarity
                             + Unit * Min(in.activity_similarity, ActivityCap)
           /\ mutual_weight + interest_weight + activity_weight = Unit
           /\ 0 <= total /\ total <= Unit
           /\ in.mutual_count > MutualCap =>
                 total = weighted_total(MutualCap, in.interest_similarity,
                                        in.activity_similarity)
           /\ in.activity_similarity > ActivityCap =>
                 total = weighted_total(in.mutual_count, in.interest_similarity,
                                        ActivityCap)

C17_Witness ==
    /\ last.op = "total"
    /\ last.result[1].mutual_count > MutualCap
    /\ last.result[1].activity_similarity > ActivityCap
    /\ last.result[1].interest_similarity = Unit
    /\ last.generated[1] = Unit

\* C18: the reason is "Based on " and the clauses that qualify, joined by ", ",
\* in the order mutual connections, common interests, activity, each count
\* singular exactly when it is 1; with no clause it is "Based on your network"
C18_ReasonText ==
    last.op = "score" =>
        LET score_data == last.result[1].score_data
            m == score_data.mutual_connections_count
            c == score_data.common_interests_count
            k == score_data.activity_similarity
            M == ToString(m) \o (IF m = 1 THEN " mutual connection"
                                          ELSE " mutual connections")
            C == ToString(c) \o (IF c = 1 THEN " common interest"
                                          ELSE " common interests")
            A == "similar activity patterns"
        IN last.result[1].reason =
              CASE m > 0 /\ c > 0 /\ k > 0 -> "Based on " \o M \o ", " \o C \o ", " \o A
                [] m > 0 /\ c > 0 /\ k <= 0 -> "Based on " \o M \o ", " \o C
                [] m > 0 /\ c <= 0 /\ k > 0 -> "Based on " \o M \o ", " \o A
                [] m > 0 /\ c <= 0 /\ k <= 0 -> "Based on " \o M
                [] m <= 0 /\ c > 0 /\ k > 0 -> "Based on " \o C \o ", " \o A
                [] m <= 0 /\ c > 0 /\ k <= 0 -> "Based on " \o C
                [] m <= 0 /\ c <= 0 /\ k > 0 -> "Based on " \o A
                [] OTHER -> "Based on your network"

C18_Witness ==
    /\ last.op = "score"
    /\ last.result[1].reason
          = "Based on 1 mutual connection, 2 common interests, similar activity patterns"

\* C19: calculate_activity_similarity(a, b) is the number of posts both a and b
\* liked or commented on, each post counted once, and 0 when a or b has none
C19_ActivityOverlap ==
    last.op = "score" =>
        LET Touched(u) == {p \in Posts :
                              \/ \E l \in likes : l.user = u /\ l.post = p
                              \/ \E c \in comments : c.user = u /\ c.post = p}
        IN /\ last.result[1].activity_similarity
                 = Cardinality(Touched(last.user) \cap Touched(last.target))
           /\ (Touched(last.user) = {} \/ Touched(last.target) = {})
                 => last.result[1].activity_similarity = 0

C19_Witness ==
    /\ last.op = "score" /\ last.user # last.target
    /\ Cardinality({c \in comments : c.user = last.user}) >= 2
    /\ \E l \in likes : l.user = last.user
    /\ last.result[1].activity_similarity = 1

\* C20 as stated: the bio "I am a photographer who loves travel and food" yields
\* exactly the keywords photographer, travel and food
C20_DocstringBioKeywords ==
    (last.op = "keywords" /\ profiles[last.user].bio = TxtPhotographer) =>
        ToSet(last.result) = {<<"p","h","o","t","o","g","r","a","p","h","e","r">>,
                              <<"t","r","a","v","e","l">>,
                              <<"f","o","o","d">>}

\* C20, amended: get_bio_keywords returns, in order, the lowercased words longer
\* than 2 characters that are no stop-word; "loves" is no stop-word, so the bio
\* yields photographer, loves, travel, food
C20_BioKeywords ==
    last.op = "keywords" =>
        /\ \A i \in DOMAIN last.result :
              /\ Len(last.result[i]) > 2
              /\ last.result[i] \notin common_words
              /\ last.result[i] = LowerStr(last.result[i])
        /\ profiles[last.user].bio = TxtPhotographer =>
              last.result = <<<<"p","h","o","t","o","g","r","a","p","h","e","r">>,
                              <<"l","o","v","e","s">>,
                              <<"t","r","a","v","e","l">>,
                              <<"f","o","o","d">>>>
        /\ profiles[last.user].bio = TxtBio => last.result = <<<<"a","r","t">>>>

C20_Witness ==
    /\ last.op = "keywords"
    /\ profiles[last.user].bio = TxtPhotographer
    /\ <<"l","o","v","e","s">> \in ToSet(last.result)

\* C21: when the scoring of one candidate raises, generate still returns: the
\* other candidates are scored, filtered, sorted and truncated as usual
C21_FailingCandidateSkipped ==
    (last.op = "generate" /\ last.target \in Candidates(last.user)) =>
        /\ last.branch = "returned"
        /\ \E s \in SortedByScore({r \in Kept(last.user, last.min_score) :
                                      r.recommended_user # last.target}) :
              last.result = Take(s, last.limit)

\* C22: every recomputation made by get_recommendations_for_user (use_cache
\* false, cache Absent, or cache Stale with refresh_if_old) leaves the user's
\* cache Fresh
C22_RecomputeLeavesFresh ==
    (/\ last.op = "get"
     /\ \/ ~last.use_cache
        \/ last.before = "Absent"
        \/ last.before = "Stale" /\ last.refresh_if_old) =>
        /\ last.branch \in {"refresh", "stale_refresh"}
        /\ CacheState(recs, last.user, now) = "Fresh"

\* C22 (amended): a recomputation made by get_recommendations_for_user leaves
\* the user's cache Fresh when it generated at least one recommendation, and
\* Absent when it generated none
C22_RecomputeLeavesFreshOrAbsent ==
    (last.op = "get" /\ last.branch \in {"refresh", "stale_refresh"}) =>
        /\ last.status = 200
        /\ UserRecs(recs, last.user) = NewRows(last.generated, now)
        /\ CacheState(recs, last.user, now) =
              IF last.generated # <<>> THEN "Fresh" ELSE "Absent"

C22_Witness ==
    /\ last.op = "get"
    /\ last.branch = "stale_refresh"
    /\ last.generated # <<>>
    /\ now > StaleDays
    /\ CacheState(recs, last.user, now) = "Fresh"

\* C23: the staleness decision get_recommendations_for_user takes from the
\* first record of the ordered, limited query (older than StaleDays, strictly)
\* is the decision every record of that user gives
C23_FirstRecordDecides ==
    \A u \in Users : \A first \in Query(recs, u, 1) :
        first # <<>> =>
            \A r \in UserRecs(recs, u) :
                (Branch(TRUE, TRUE, first, first, now) = "stale_refresh")
                    <=> ((now - r.updated_at) > StaleDays)

\* C24: a profile update that changes a user's interests, through
\* ProfileDetailView.update or through the user_profile PATCH, leaves no
\* cached record of that user
C24_InterestChangeInvalidates ==
    [][(/\ last'.op \in {"update", "patch"}
        /\ profiles'[last'.user].interests # profiles[last'.user].interests) =>
           UserRecs(recs', last'.user) = {}]_vars

\* C25: recomputing, replacing or invalidating the records of user u leaves
\* the records whose source user is another user v as they were, also those
\* that recommend u
C25_OtherUsersUntouched ==
    [][\A v \in Users :
          (last'.op \in {"get", "refresh", "update"} /\ last'.user # v) =>
              UserRecs(recs', v) = UserRecs(recs, v)]_vars

C25_Witness ==
    /\ last.op \in {"get", "refresh", "update"}
    /\ last.branch # "cached"
    /\ last.before # "Absent"
    /\ \E r \in recs : r.user # last.user /\ r.recommended_user = last.user

\* C26: get_recommendations_for_user with use_cache true on a Fresh cache
\* writes nothing, whatever the limit (0 included): the user's records are
\* the same before and after the call
C26_FreshHitWritesNothing ==
    [][(last'.op = "get" /\ last'.use_cache /\ last'.before = "Fresh") =>
          /\ last'.branch = "cached"
          /\ recs' = recs]_vars

\* C27: when two recomputations for the same user have both ended, neither
\* ended in an error and the user's records are the records of exactly one of
\* the two generations
C27_InterleavedRecomputations ==
    \A p, q \in Procs :
        (/\ p # q
         /\ procs[p].user = procs[q].user
         /\ procs[p].pc \in {"done", "error"}
         /\ procs[q].pc \in {"done", "error"}
         /\ procs[p].branch \in {"refresh", "stale_refresh", "integrity"}
         /\ procs[q].branch \in {"refresh", "stale_refresh", "integrity"}) =>
            /\ procs[p].pc = "done"
            /\ procs[q].pc = "done"
            /\ \E t \in 0..MaxTime :
                  UserRecs(recs, procs[p].user) \in
                      {NewRows(procs[p].recommendations, t),
                       NewRows(procs[q].recommendations, t)}

\* C28: a recomputation by get_recommendations_for_user with limit L leaves at
\* most L records of the user; a cache hit writes nothing and returns no more
\* records than are stored, so a hit that follows the recomputation returns at
\* most L records even when it asks for more
C28_CacheHoldsAtMostLimit ==
    [][/\ (last'.op = "get" /\ last'.branch # "cached" /\ last'.status = 200) =>
             Cardinality(UserRecs(recs', last'.user)) <= last'.limit
       /\ (last'.op = "get" /\ last'.branch = "cached") =>
             /\ recs' = recs
             /\ Len(last'.result) <= Cardinality(UserRecs(recs, last'.user))
       /\ (/\ last.op = "get" /\ last.branch # "cached" /\ last.status = 200
           /\ last'.op = "get" /\ last'.branch = "cached"
           /\ last'.user = last.user) =>
             Len(last'.result) <= last.limit]_vars

C28_Witness ==
    /\ last.op = "get"
    /\ last.branch = "cached"
    /\ last.limit = 2
    /\ Len(last.result) = 1
    /\ Cardinality(Qualifying(last.user, DefaultMinScore)) >= 2

\* C29: follow_user and unfollow_user leave every cached record as it was, so a
\* cache hit returns the stored records of the user whatever the user follows
\* by then, a record that recommends a user followed since included
C29_FollowKeepsCache ==
    [][/\ (last'.op \in {"follow", "unfollow"}) => recs' = recs
       /\ (last'.op = "get" /\ last'.branch = "cached") =>
             last'.result \in Query(recs, last'.user, last'.limit)]_vars

C29_Witness ==
    /\ last.op = "get"
    /\ last.branch = "cached"
    /\ last.before = "Fresh"
    /\ \E i \in DOMAIN last.result :
          [follower |-> last.user, following |-> last.result[i].recommended_user]
              \in connections

\* C30: follow_user and unfollow_user never store a connection from a user to
\* itself and never create a connection for a pair that has one; follow_user
\* on oneself or on a user already followed answers 400 and changes nothing
C30_ConnectionsWellFormed ==
    [][LET edge == [follower |-> last'.user, following |-> last'.target]
       IN /\ \A c \in connections' : c.follower # c.following
          /\ (last'.op = "follow") =>
                IF last'.target = last'.user \/ edge \in connections
                THEN last'.status = 400 /\ connections' = connections
                ELSE /\ last'.status = 200
                     /\ connections' = connections \cup {edge}
          /\ (last'.op = "unfollow") =>
                IF edge \in connections
                THEN last'.status = 200 /\ connections' = connections \ {edge}
                ELSE last'.status = 400 /\ connections' = connections]_vars

C30_Witness ==
    /\ last.op = "follow"
    /\ last.status = 400
    /\ last.branch = "already"
    /\ [follower |-> last.user, following |-> last.target] \in connections

====
